---- MODULE Spec2Model ----
\* A model of the storage server's advertisement resolver (utils/getMetadata.ts),
\* of its S3 event handler (k8s/s3-event-handler/src/event-handler.js) and of
\* its storage providers (utils/storage).
\* Strings the code inspects character by character (tags, object keys) are
\* sequences of one-character strings.
EXTENDS Integers, Sequences, FiniteSets, TLC

VARIABLES
    \* ---- resolver (getMetadata.ts)
    nowMs,             \* Date.now(), milliseconds
    outputs,           \* what wallet.listOutputs resolved with
    rpc,               \* position of the getMetadata call
    outIdx,            \* index of the next element of `outputs` the scan reads
    objectIdentifier,  \* `let objectIdentifier` (None while undefined)
    maxpiry,           \* `let maxpiry`
    adapterCalls,      \* keys getObjectMetadata was called with
    result,            \* what the call returned or threw
    \* ---- event handler (event-handler.js)
    queue,             \* the messages the SQS queue holds (not deleted)
    body,              \* the body of each message
    receiveCount,      \* how often SQS has handed out each message
    recvFails,         \* how often the receive call has failed
    ppc,               \* position of pollSQS
    batch,             \* response.Messages while their processing is awaited
    pm,                \* per message: the state of its processMessage call
    processedEvents,   \* `let processedEvents`
    processingErrors,  \* `let processingErrors`
    registrations,     \* the bodies POSTed to /advertise, per delivery
    \* ---- storage providers (utils/storage)
    env,               \* process.env
    storageProvider,   \* `let storageProvider` (None while null)
    instances,         \* providers constructed so far
    built,             \* providers constructed since the last reset
    handedOut,         \* instances getStorageProvider returned since then
    bucket,            \* per backend and key: the stored object
    grant,             \* the upload grant issued last
    upd,               \* the updateObjectMetadata call of each caller
    call               \* the last call of the storage layer and its outcome

rvars == <<outputs, rpc, outIdx, objectIdentifier, maxpiry, adapterCalls, result>>
hvars == <<queue, body, receiveCount, recvFails, ppc, batch, pm,
           processedEvents, processingErrors, registrations>>
svars == <<env, storageProvider, instances, built, handedOut, bucket, grant,
           upd, call>>
vars == <<nowMs, rvars, hvars, svars>>

--------------------------------------------------------------------------
\* JavaScript values

\* undefined / a value, as a sequence of length 0 / 1
None == <<>>
Some(x) == <<x>>

\* NaN, as parseInt returns it
NaN == None

\* String.prototype.startsWith
StartsWith(s, p) == Len(s) >= Len(p) /\ SubSeq(s, 1, Len(p)) = p

\* String.prototype.substring(n)
Substring(s, n) == SubSeq(s, n + 1, Len(s))

\* Array.prototype.find: the first element satisfying the test, or undefined
RECURSIVE FindPrefix(_, _)
FindPrefix(tags, p) ==
    IF tags = <<>> THEN None
    ELSE IF StartsWith(Head(tags), p) THEN Some(Head(tags))
    ELSE FindPrefix(Tail(tags), p)

Digits == {"0", "1", "2", "3", "4", "5", "6", "7", "8", "9"}

DigitVal(c) ==
    CASE c = "0" -> 0 [] c = "1" -> 1 [] c = "2" -> 2 [] c = "3" -> 3
      [] c = "4" -> 4 [] c = "5" -> 5 [] c = "6" -> 6 [] c = "7" -> 7
      [] c = "8" -> 8 [] c = "9" -> 9

\* the value of the longest prefix of decimal digits of s, continuing from acc
RECURSIVE DigitRun(_, _)
DigitRun(s, acc) ==
    IF s = <<>> \/ Head(s) \notin Digits THEN acc
    ELSE DigitRun(Tail(s), 10 * acc + DigitVal(Head(s)))

RECURSIVE SkipSpaces(_)
SkipSpaces(s) == IF s # <<>> /\ Head(s) = " " THEN SkipSpaces(Tail(s)) ELSE s

\* parseInt(s, 10): leading white space, an optional sign, then the longest
\* run of digits; NaN when there is no digit
ParseInt(s) ==
    LET t == SkipSpaces(s)
        neg == t # <<>> /\ Head(t) = "-"
        u == IF t # <<>> /\ Head(t) \in {"-", "+"} THEN Tail(t) ELSE t
    IN  IF u = <<>> \/ Head(u) \notin Digits THEN NaN
        ELSE Some((IF neg THEN -1 ELSE 1) * DigitRun(u, 0))

HexVal(c) ==
    CASE c \in Digits -> DigitVal(c)
      [] c = "a" -> 10 [] c = "b" -> 11 [] c = "c" -> 12
      [] c = "d" -> 13 [] c = "e" -> 14 [] c = "f" -> 15

\* Utils.toArray(hex, 'hex'): one byte per pair of hex digits
RECURSIVE HexToArray(_)
HexToArray(h) ==
    IF Len(h) < 2 THEN <<>>
    ELSE <<16 * HexVal(h[1]) + HexVal(h[2])>> \o HexToArray(SubSeq(h, 3, Len(h)))

\* Utils.toUTF8 on the bytes the model uses
CharOf(b) ==
    CASE b = 97 -> "a" [] b = 98 -> "b" [] b = 47 -> "/" [] OTHER -> "?"

ToUTF8(bytes) == [i \in 1..Len(bytes) |-> CharOf(bytes[i])]

--------------------------------------------------------------------------
\* Advertisement resolver: getMetadata

ObjectIdPrefix ==
    <<"o","b","j","e","c","t","_","i","d","e","n","t","i","f","i","e","r","_">>
ExpiryPrefix == <<"e","x","p","i","r","y","_","t","i","m","e","_">>
UhrpUrlPrefix == <<"u","h","r","p","_","u","r","l","_">>
CdnPrefix == <<"c","d","n","/">>

\* `parseInt(expiryTag.substring('expiry_time_'.length), 10) || 0`
ExpiryNum(expiryTag) ==
    LET n == ParseInt(Substring(expiryTag, Len(ExpiryPrefix)))
    IN  IF n = NaN THEN 0 ELSE n[1]

\* Utils.toUTF8(Utils.toArray(objectIdTag.substring(...), 'hex'))
DecodeObjectId(objectIdTag) ==
    ToUTF8(HexToArray(Substring(objectIdTag, Len(ObjectIdPrefix))))

\* `expiryNum > maxpiry`
Replaces(expiryNum, best) == expiryNum > best

\* One iteration of the scan loop over `out`, from the state st = [id, max]
ScanOne(st, out) ==
    IF out.tags = None THEN st
    ELSE LET objectIdTag == FindPrefix(out.tags[1], ObjectIdPrefix)
             expiryTag == FindPrefix(out.tags[1], ExpiryPrefix)
         IN  IF objectIdTag = None \/ expiryTag = None THEN st
             ELSE IF Replaces(ExpiryNum(expiryTag[1]), st.max)
                  THEN [id |-> Some(DecodeObjectId(objectIdTag[1])),
                        max |-> ExpiryNum(expiryTag[1])]
                  ELSE st

\* (mutant) the check for a missing identifier left out
FalsyNever(id) == FALSE

\* `!objectIdentifier`: undefined and the empty string are falsy
Falsy(id) == id = None \/ id[1] = <<>>

\* (mutant) the clock cut to whole seconds before the comparison
HasExpiredInSeconds(now, expiry) == now \div 1000 > expiry

\* `Date.now() > maxpiry * 1000`
HasExpired(now, expiry) == now > expiry * 1000

\* `cdn/${objectIdentifier}`: a template literal prints undefined as text
ObjectKey(id) ==
    CdnPrefix \o (IF id = None THEN <<"u","n","d","e","f","i","n","e","d">>
                  ELSE id[1])

\* Number.prototype.toString on a natural number, digit by digit
DigitChar(d) ==
    CASE d = 0 -> "0" [] d = 1 -> "1" [] d = 2 -> "2" [] d = 3 -> "3"
      [] d = 4 -> "4" [] d = 5 -> "5" [] d = 6 -> "6" [] d = 7 -> "7"
      [] d = 8 -> "8" [] d = 9 -> "9"

RECURSIVE NumToString(_)
NumToString(n) ==
    IF n < 10 THEN <<DigitChar(n)>>
    ELSE NumToString(n \div 10) \o <<DigitChar(n % 10)>>

\* ---- inputs of the resolver

\* the most candidates wallet.listOutputs answers with
MaxOutputs == 2

\* texts after 'expiry_time_'
ExpiryTexts ==
    { <<"0">>, <<"1">>, <<"2">>, <<"x">>, <<"-", "1">>, <<"1", "x">> }

\* texts after 'object_identifier_': hex of "a", of "b", of ""
IdHexes == { <<"6", "1">>, <<"6", "2">>, <<>> }

UhrpTag == UhrpUrlPrefix \o <<"7", "5">>

Candidates ==
    { [tags |-> None], [tags |-> Some(<<>>)],
      [tags |-> Some(<<UhrpTag, ObjectIdPrefix \o <<"6", "1">>>>)],
      [tags |-> Some(<<UhrpTag, ExpiryPrefix \o <<"2">>>>)],
      [tags |-> Some(<<ObjectIdPrefix \o <<"6", "2">>,
                       ExpiryPrefix \o <<"2">>, ExpiryPrefix \o <<"1">>>>)] }
    \cup { [tags |-> Some(<<UhrpTag, ObjectIdPrefix \o h, ExpiryPrefix \o e>>)] :
             h \in IdHexes, e \in ExpiryTexts }

OutputLists == UNION { [1..n -> Candidates] : n \in 0..MaxOutputs }

\* Date.now() when getMetadata runs
NowValues == { 0, 1000, 1001, 2000, 2001 }

\* what storage.getObjectMetadata resolves with
AdapterMetas ==
    { [size |-> 1024, contentType |-> "image/png"],
      [size |-> 7, contentType |-> "text/plain"] }

NoResult ==
    [status |-> "pending", error |-> "", objectIdentifier |-> None,
     name |-> <<>>, size |-> <<>>, contentType |-> "", expiryTime |-> 0]

Threw(e) == [NoResult EXCEPT !.status = "threw", !.error = e]

\* the resolver before getMetadata is called
RIdle ==
    /\ outputs = <<>>
    /\ rpc = "idle"
    /\ outIdx = 1
    /\ objectIdentifier = None
    /\ maxpiry = 0
    /\ adapterCalls = {}
    /\ result = NoResult

\* getMetadata is called: lines 23-36, up to the await of listOutputs
RInit ==
    /\ nowMs \in NowValues
    /\ outputs \in OutputLists
    /\ rpc = "list"
    /\ outIdx = 1
    /\ objectIdentifier = None
    /\ maxpiry = 0
    /\ adapterCalls = {}
    /\ result = NoResult

\* wallet.listOutputs resolves
ListOutputsOk ==
    /\ rpc = "list"
    /\ rpc' = "scan"
    /\ UNCHANGED <<nowMs, outputs, outIdx, objectIdentifier, maxpiry,
                   adapterCalls, result, hvars, svars>>

\* getWallet or wallet.listOutputs rejects: getMetadata rejects with it
ListOutputsFail ==
    /\ rpc = "list"
    /\ rpc' = "threw"
    /\ result' = Threw("WalletError")
    /\ UNCHANGED <<nowMs, outputs, outIdx, objectIdentifier, maxpiry,
                   adapterCalls, hvars, svars>>

\* one iteration of `for (const out of outputs)`
ScanStep ==
    /\ rpc = "scan"
    /\ outIdx <= Len(outputs)
    /\ LET st == ScanOne([id |-> objectIdentifier, max |-> maxpiry],
                         outputs[outIdx])
       IN  /\ objectIdentifier' = st.id
           /\ maxpiry' = st.max
    /\ outIdx' = outIdx + 1
    /\ UNCHANGED <<nowMs, outputs, rpc, adapterCalls, result, hvars, svars>>

\* after the loop: the two checks, then the call of the storage adapter
ScanEnd ==
    /\ rpc = "scan"
    /\ outIdx > Len(outputs)
    /\ IF Falsy(objectIdentifier)
       THEN /\ rpc' = "threw"
            /\ result' = Threw("NoAdvertisementFound")
            /\ UNCHANGED adapterCalls
       ELSE IF HasExpired(nowMs, maxpiry)
       THEN /\ rpc' = "threw"
            /\ result' = Threw("AdvertisementExpired")
            /\ UNCHANGED adapterCalls
       ELSE /\ rpc' = "fetch"
            /\ adapterCalls' = adapterCalls \cup {ObjectKey(objectIdentifier)}
            /\ UNCHANGED result
    /\ UNCHANGED <<nowMs, outputs, outIdx, objectIdentifier, maxpiry, hvars, svars>>

\* storage.getObjectMetadata resolves: the record getMetadata returns
FetchOk ==
    /\ rpc = "fetch"
    /\ \E md \in AdapterMetas :
         result' = [status |-> "returned", error |-> "",
                    objectIdentifier |-> objectIdentifier,
                    name |-> ObjectKey(objectIdentifier),
                    size |-> NumToString(md.size),
                    contentType |-> md.contentType,
                    expiryTime |-> maxpiry]
    /\ rpc' = "returned"
    /\ UNCHANGED <<nowMs, outputs, outIdx, objectIdentifier, maxpiry,
                   adapterCalls, hvars, svars>>

\* storage.getObjectMetadata rejects: the error propagates
FetchFail ==
    /\ rpc = "fetch"
    /\ rpc' = "threw"
    /\ result' = Threw("AdapterError")
    /\ UNCHANGED <<nowMs, outputs, outIdx, objectIdentifier, maxpiry,
                   adapterCalls, hvars, svars>>

--------------------------------------------------------------------------
\* S3 event handler: processS3Object, processMessage, pollSQS

CreatedPrefix ==
    <<"O","b","j","e","c","t","C","r","e","a","t","e","d",":">>
EvPut == CreatedPrefix \o <<"P","u","t">>
EvRemoved ==
    <<"O","b","j","e","c","t","R","e","m","o","v","e","d",":","D","e","l">>

HexDigits == Digits \cup {"a", "b", "c", "d", "e", "f"}

\* `.replace(/\+/g, ' ')`
PlusToSpace(s) == [i \in 1..Len(s) |-> IF s[i] = "+" THEN " " ELSE s[i]]

\* decodeURIComponent, the text decoded so far in acc: None when it throws
\* URIError
RECURSIVE PercentDecode(_, _)
PercentDecode(s, acc) ==
    IF s = <<>> THEN Some(acc)
    ELSE IF Head(s) # "%" THEN PercentDecode(Tail(s), Append(acc, Head(s)))
    ELSE IF Len(s) < 3 \/ s[2] \notin HexDigits \/ s[3] \notin HexDigits
    THEN None
    ELSE PercentDecode(SubSeq(s, 4, Len(s)),
                       Append(acc, CharOf(16 * HexVal(s[2]) + HexVal(s[3]))))

\* `decodeURIComponent(record.s3.object.key.replace(/\+/g, ' '))`
DecodeKey(raw) == PercentDecode(PlusToSpace(raw), <<>>)

\* (mutant) the prefix filter left out
IsCdnAlways(objectKey) == TRUE

\* `objectKey.startsWith('cdn/')`
IsCdn(objectKey) == StartsWith(objectKey, CdnPrefix)

\* `objectKey.split('/').pop()`: the text after the last '/'
RECURSIVE LastSegment(_)
LastSegment(s) ==
    IF \A i \in 1..Len(s) : s[i] # "/" THEN s
    ELSE LastSegment(Tail(s))

\* ---- the bucket

KeyA == CdnPrefix \o <<"a">>
KeyB == CdnPrefix \o <<"b">>
KeyC == CdnPrefix \o <<"c">>
KeyNested == CdnPrefix \o <<"d", "/", "e">>
KeyOther == <<"o","t","h","e","r","/","f","o","o">>

\* An ISO-8601 timestamp is the record of its seconds and milliseconds
\* since the epoch; `new Date(iso).getTime()`
DateParse(iso) == iso.sec * 1000 + iso.ms

\* What HeadObject answers for each key of the bucket: cdn/a was uploaded
\* with both metadata fields, cdn/b without customtime, cdn/c without
\* uploaderidentitykey, cdn/d/e under the identifier 'd/e' with both
Objects ==
    (KeyA :> [ContentLength |-> 1024, Bytes |-> "bytes-a",
              Metadata |-> [uploaderidentitykey |-> Some("U1"),
                            customtime |-> Some([sec |-> 3900, ms |-> 0])]])
    @@ (KeyB :> [ContentLength |-> 7, Bytes |-> "bytes-b",
                 Metadata |-> [uploaderidentitykey |-> Some("U2"),
                               customtime |-> None]])
    @@ (KeyC :> [ContentLength |-> 5, Bytes |-> "bytes-c",
                 Metadata |-> [uploaderidentitykey |-> None,
                               customtime |-> Some([sec |-> 60, ms |-> 500])]])
    @@ (KeyNested :> [ContentLength |-> 9, Bytes |-> "bytes-d",
                      Metadata |-> [uploaderidentitykey |-> Some("U1"),
                                    customtime |-> Some([sec |-> 3900, ms |-> 0])]])

\* (mutant) the check of the uploader field left out
HasUploaderAlways(metadata) == TRUE

\* `metadata.Metadata && metadata.Metadata.uploaderidentitykey`
HasUploader(metadata) ==
    /\ metadata.Metadata.uploaderidentitykey # None
    /\ metadata.Metadata.uploaderidentitykey[1] # ""

\* `let uploaderIdentityKey = ''`, then the metadata field when it is there
UploaderIdentityKey(metadata) ==
    IF metadata.Metadata.uploaderidentitykey # None
    THEN metadata.Metadata.uploaderidentitykey[1]
    ELSE ""

\* Math.round(ms / 1000) of a non-negative number of milliseconds
RoundSeconds(ms) == (ms + 500) \div 1000

\* (mutant) thirty days counted in minutes
ThirtyDaysInMinutes == 30 * 24 * 60

\* `30 * 24 * 60 * 60`
ThirtyDays == 30 * 24 * 60 * 60

\* (mutant) the default taken although customtime is there
ExpiryTimeFromClock(metadata, now) == RoundSeconds(now) + ThirtyDays

\* `const expiryTime = metadata.Metadata?.customtime ? ... : ...`
ExpiryTime(metadata, now) ==
    IF metadata.Metadata.customtime # None
    THEN RoundSeconds(DateParse(metadata.Metadata.customtime[1]))
    ELSE RoundSeconds(now) + ThirtyDays

\* crypto sha256 then StorageUtils.getURLForHash: one URL per content
UhrpUrl(bytes) == <<"uhrp", "sha256", bytes>>

\* `const notificationData = {...}`
NotificationData(objectKey, metadata, expiry) ==
    [adminToken |-> "ADMIN_TOKEN",
     uhrpUrl |-> UhrpUrl(metadata.Bytes),
     uploaderIdentityKey |-> UploaderIdentityKey(metadata),
     objectIdentifier |-> LastSegment(objectKey),
     expiryTime |-> expiry,
     fileSize |-> metadata.ContentLength]

\* ---- the queue

\* the messages the queue holds at the start
NumMsgs == 2
Msgs == 1..NumMsgs

\* SQS hands a message out at most this often (the queue's redrive policy)
MaxReceives == 2

\* the receive call fails at most this often
MaxRecvFails == 1

\* MaxNumberOfMessages of a receive
SQS_MAX_MESSAGES == 2

\* the clock advances in steps of TickMs up to MaxNowMs
TickMs == 500
MaxTicks == 1
MaxNowMs == MaxTicks * TickMs

Rec(ev, key) == [eventName |-> ev, key |-> key]

\* message bodies: text that is no JSON, JSON without Records, and Records
BadJson == [parses |-> FALSE, Records |-> None]
NoRecords == [parses |-> TRUE, Records |-> None]
WithRecords(recs) == [parses |-> TRUE, Records |-> Some(recs)]

BodyList ==
    << BadJson,
       NoRecords,
       WithRecords(<<Rec(Some(EvPut), KeyA)>>),
       WithRecords(<<Rec(Some(EvPut), KeyB)>>),
       WithRecords(<<Rec(Some(EvPut), KeyC)>>),
       WithRecords(<<Rec(Some(EvPut), KeyOther)>>),
       WithRecords(<<Rec(Some(EvRemoved), KeyA)>>),
       WithRecords(<<Rec(Some(EvPut), KeyA), Rec(Some(EvPut), KeyC)>>),
       WithRecords(<<Rec(Some(EvPut), KeyOther), Rec(Some(EvPut), KeyB)>>),
       WithRecords(<<Rec(None, KeyA)>>),
       WithRecords(<<Rec(Some(EvPut), <<"c","d","n","%","2","f","a">>)>>),
       WithRecords(<<Rec(Some(EvPut), <<"c","d","n","/","%">>)>>),
       WithRecords(<<Rec(Some(EvPut), KeyNested)>>) >>

Bodies == {BodyList[i] : i \in 1..Len(BodyList)}

\* the keys the records of the bodies carry, each with what DecodeKey makes
\* of it
RawKeys ==
    UNION { {b.Records[1][i].key : i \in 1..Len(b.Records[1])} :
            b \in {x \in Bodies : x.Records # None} }
DecodedKey == [raw \in RawKeys |-> DecodeKey(raw)]

\* ---- processMessage

\* the state of one processMessage call: where it is, the record its loop is
\* at, the expiryTime local of processS3Object, and for the current delivery
\* the calls it sent, the calls that succeeded, and what it added to the
\* two counters
Queued ==
    [pc |-> "queued", rec |-> 0, expiryTime |-> 0, calls |-> {}, done |-> {},
     errs |-> 0, procd |-> 0]

InFlightPcs == {"head", "get", "post", "delete"}
Settled(st) == st.pc \notin InFlightPcs

\* The loop of processMessage from record i on, as far as it runs without
\* awaiting I/O: records that are no create events and keys outside cdn/
\* are passed over; a record without eventName and a key that does not
\* decode throw into the catch of processMessage
RECURSIVE NextAwait(_, _)
NextAwait(recs, i) ==
    IF i > Len(recs) THEN [pc |-> "delete", rec |-> 0]
    ELSE IF recs[i].eventName = None THEN [pc |-> "failed", rec |-> i]
    ELSE IF ~StartsWith(recs[i].eventName[1], CreatedPrefix)
    THEN NextAwait(recs, i + 1)
    ELSE IF DecodedKey[recs[i].key] = None THEN [pc |-> "failed", rec |-> i]
    ELSE IF ~IsCdn(DecodedKey[recs[i].key][1]) THEN NextAwait(recs, i + 1)
    ELSE [pc |-> "head", rec |-> i]

\* NextAwait for every body and every record of it
LoopFrom ==
    [b \in {x \in Bodies : x.Records # None} |->
        [i \in 1..(Len(b.Records[1]) + 1) |-> NextAwait(b.Records[1], i)]]

\* the call a position awaits
CallOf(pos) == IF pos.pc \in InFlightPcs THEN {<<pos.pc, pos.rec>>} ELSE {}

\* processMessage from its first line to its first await
Start(b) ==
    LET pos == IF ~b.parses THEN [pc |-> "failed", rec |-> 0]
               ELSE IF b.Records = None THEN [pc |-> "delete", rec |-> 0]
               ELSE LoopFrom[b][1]
    IN  [Queued EXCEPT !.pc = pos.pc, !.rec = pos.rec, !.calls = CallOf(pos),
                       !.errs = IF pos.pc = "failed" THEN 1 ELSE 0]

\* the key of the record the loop of message m is at
KeyOf(m) == DecodedKey[body[m].Records[1][pm[m].rec].key][1]

\* (mutant) the catch of processS3Object swallows the error
RethrowsNot == FALSE

\* `throw error` at the end of the catch of processS3Object
Rethrows == TRUE

\* (mutant) a record that fails is counted and the loop goes on
ThrownGoesOn(m) ==
    LET pos == LoopFrom[body[m]][pm[m].rec + 1]
    IN  [pm[m] EXCEPT !.pc = pos.pc, !.rec = pos.rec,
                      !.calls = @ \cup CallOf(pos), !.errs = @ + 2]

\* A step of processS3Object throws: its catch counts the error and throws
\* it on, and the catch of processMessage counts it again
Thrown(m) ==
    IF Rethrows
    THEN [pm[m] EXCEPT !.pc = "failed", !.errs = @ + 2]
    ELSE LET pos == LoopFrom[body[m]][pm[m].rec + 1]
         IN  [pm[m] EXCEPT !.pc = pos.pc, !.rec = pos.rec,
                           !.calls = @ \cup CallOf(pos), !.errs = @ + 1]

\* processS3Object resolves: the loop goes on to the next record
Resolved(m) ==
    LET pos == LoopFrom[body[m]][pm[m].rec + 1]
    IN  [pm[m] EXCEPT !.pc = pos.pc, !.rec = pos.rec,
                      !.calls = @ \cup CallOf(pos),
                      !.done = @ \cup {<<"post", pm[m].rec>>},
                      !.procd = @ + 1,
                      !.errs = @ + (IF pos.pc = "failed" THEN 1 ELSE 0)]

\* (mutant) processMessage rejects: Promise.all rejects into the catch of
\* pollSQS
CaughtNot(p) == "wait"

\* The catch of processMessage keeps a failure of one message from pollSQS:
\* the position of pollSQS after a message has failed
Caught(p) == p

\* (mutant) pollSQS does not go on after a batch
AfterStepStuck(p, newPm) == p

\* (mutant) pollSQS does not await the batch
AfterStepEager(p, newPm) == IF p = "batch" THEN "receive" ELSE p

\* `await Promise.all(...)` and the loop: pollSQS receives again once every
\* message of the batch has settled
AfterStep(p, newPm) ==
    IF p = "batch" /\ \A m \in batch : Settled(newPm[m]) THEN "receive" ELSE p

Running == ppc # "exited"

\* one step of message m to the state st: the counters grow by what the
\* step added to the message's own
MessageStep(m, st, failure) ==
    /\ pm' = [pm EXCEPT ![m] = st]
    /\ processingErrors' = processingErrors + (st.errs - pm[m].errs)
    /\ processedEvents' = processedEvents + (st.procd - pm[m].procd)
    /\ ppc' = AfterStep(IF failure THEN Caught(ppc) ELSE ppc,
                        [pm EXCEPT ![m] = st])
    /\ batch' = IF ppc' = "batch" THEN batch ELSE {}
    /\ UNCHANGED <<nowMs, rvars, svars, body, receiveCount, recvFails>>

\* HeadObject resolves: lines 98-134, up to the await of GetObject
HeadOk(m) ==
    /\ Running /\ pm[m].pc = "head"
    /\ KeyOf(m) \in DOMAIN Objects
    /\ IF HasUploader(Objects[KeyOf(m)])
       THEN MessageStep(m, [pm[m] EXCEPT
                !.pc = "get",
                !.expiryTime = ExpiryTime(Objects[KeyOf(m)], nowMs),
                !.done = @ \cup {<<"head", pm[m].rec>>},
                !.calls = @ \cup {<<"get", pm[m].rec>>}], FALSE)
       ELSE MessageStep(m, [Thrown(m) EXCEPT
                !.done = @ \cup {<<"head", pm[m].rec>>}], TRUE)
    /\ UNCHANGED <<queue, registrations>>

\* HeadObject rejects (no such key, no access, network)
HeadFail(m) ==
    /\ Running /\ pm[m].pc = "head"
    /\ MessageStep(m, Thrown(m), TRUE)
    /\ UNCHANGED <<queue, registrations>>

\* GetObject resolves and its stream is read: lines 134-176, up to the await
\* of the POST to /advertise
GetOk(m) ==
    /\ Running /\ pm[m].pc = "get"
    /\ MessageStep(m, [pm[m] EXCEPT
            !.pc = "post",
            !.done = @ \cup {<<"get", pm[m].rec>>},
            !.calls = @ \cup {<<"post", pm[m].rec>>}], FALSE)
    /\ registrations' = registrations \cup
         {[msg |-> m, rec |-> pm[m].rec, delivery |-> receiveCount[m],
           data |-> NotificationData(KeyOf(m), Objects[KeyOf(m)],
                                     pm[m].expiryTime)]}
    /\ UNCHANGED queue

\* GetObject rejects, or reading its stream throws
GetFail(m) ==
    /\ Running /\ pm[m].pc = "get"
    /\ MessageStep(m, Thrown(m), TRUE)
    /\ UNCHANGED <<queue, registrations>>

\* the POST resolves: lines 178-179, then the loop of processMessage
PostOk(m) ==
    /\ Running /\ pm[m].pc = "post"
    /\ MessageStep(m, Resolved(m), Resolved(m).pc = "failed")
    /\ UNCHANGED <<queue, registrations>>

\* the POST rejects (status outside 2xx, timeout, network)
PostFail(m) ==
    /\ Running /\ pm[m].pc = "post"
    /\ MessageStep(m, Thrown(m), TRUE)
    /\ UNCHANGED <<queue, registrations>>

\* DeleteMessage resolves: the message leaves the queue
DeleteOk(m) ==
    /\ Running /\ pm[m].pc = "delete"
    /\ MessageStep(m, [pm[m] EXCEPT !.pc = "deleted",
                          !.done = @ \cup {<<"delete", 0>>}], FALSE)
    /\ queue' = queue \ {m}
    /\ UNCHANGED registrations

\* DeleteMessage rejects: the catch of processMessage counts the error
DeleteFail(m) ==
    /\ Running /\ pm[m].pc = "delete"
    /\ MessageStep(m, [pm[m] EXCEPT !.pc = "failed", !.errs = @ + 1], TRUE)
    /\ UNCHANGED <<queue, registrations>>

\* ---- pollSQS

\* a message SQS may hand out: in the queue, not in flight, not yet handed
\* out MaxReceives times
Visible(m) ==
    /\ m \in queue
    /\ pm[m].pc \in {"queued", "failed"}
    /\ receiveCount[m] < MaxReceives

\* ReceiveMessage resolves with the messages B: every processMessage call
\* runs to its first await
ReceiveOk(B) ==
    /\ ppc = "receive"
    /\ B # {} /\ Cardinality(B) <= SQS_MAX_MESSAGES
    /\ \A m \in B : Visible(m)
    /\ receiveCount' = [m \in Msgs |->
                          IF m \in B THEN receiveCount[m] + 1 ELSE receiveCount[m]]
    /\ pm' = [m \in Msgs |-> IF m \in B THEN Start(body[m]) ELSE pm[m]]
    /\ processingErrors' =
         processingErrors + Cardinality({m \in B : Start(body[m]).pc = "failed"})
    /\ ppc' = IF \A m \in B : Settled(pm'[m]) THEN "receive" ELSE "batch"
    /\ batch' = IF ppc' = "batch" THEN B ELSE {}
    /\ UNCHANGED <<nowMs, rvars, svars, queue, body, recvFails, processedEvents,
                   registrations>>

\* (mutant) ReceiveMessage rejects and pollSQS has no catch: the promise of
\* pollSQS rejects and its handler calls process.exit(1)
ReceiveFailRejects ==
    /\ ppc = "receive"
    /\ recvFails < MaxRecvFails
    /\ recvFails' = recvFails + 1
    /\ ppc' = "exited"
    /\ UNCHANGED <<nowMs, rvars, svars, queue, body, receiveCount, batch, pm,
                   processedEvents, processingErrors, registrations>>

\* ReceiveMessage rejects: the catch of pollSQS, up to the await of the timer
ReceiveFail ==
    /\ ppc = "receive"
    /\ recvFails < MaxRecvFails
    /\ recvFails' = recvFails + 1
    /\ processingErrors' = processingErrors + 1
    /\ ppc' = "wait"
    /\ UNCHANGED <<nowMs, rvars, svars, queue, body, receiveCount, batch, pm,
                   processedEvents, registrations>>

\* the 5 s timer fires: the loop receives again
WaitDone ==
    /\ ppc = "wait"
    /\ ppc' = "receive"
    /\ UNCHANGED <<nowMs, rvars, svars, queue, body, receiveCount, recvFails, batch,
                   pm, processedEvents, processingErrors, registrations>>

\* SIGTERM or SIGINT: the handler calls process.exit(0)
Shutdown ==
    /\ Running
    /\ ppc' = "exited"
    /\ UNCHANGED <<nowMs, rvars, svars, queue, body, receiveCount, recvFails, batch,
                   pm, processedEvents, processingErrors, registrations>>

\* Time passes. Date.now() is read where HeadObject resolves and nowhere
\* else, so the clock moves only while such an answer is awaited.
Tick ==
    /\ Running
    /\ \E m \in Msgs : pm[m].pc = "head"
    /\ nowMs < MaxNowMs
    /\ nowMs' = nowMs + TickMs
    /\ UNCHANGED <<rvars, hvars, svars>>

\* the event handler before it starts
HIdle ==
    /\ queue = {}
    /\ body = [m \in Msgs |-> NoRecords]
    /\ receiveCount = [m \in Msgs |-> 0]
    /\ recvFails = 0
    /\ ppc = "exited"
    /\ batch = {}
    /\ pm = [m \in Msgs |-> Queued]
    /\ processedEvents = 0
    /\ processingErrors = 0
    /\ registrations = {}

\* the event handler when pollSQS is called, the queue holding NumMsgs
\* messages (listed by body, as the messages are interchangeable)
HInit ==
    /\ queue = Msgs
    /\ \E f \in [Msgs -> 1..Len(BodyList)] :
         /\ \A m \in Msgs : m + 1 \in Msgs => f[m] <= f[m + 1]
         /\ body = [m \in Msgs |-> BodyList[f[m]]]
    /\ receiveCount = [m \in Msgs |-> 0]
    /\ recvFails = 0
    /\ ppc = "receive"
    /\ batch = {}
    /\ pm = [m \in Msgs |-> Queued]
    /\ processedEvents = 0
    /\ processingErrors = 0
    /\ registrations = {}

--------------------------------------------------------------------------
\* Storage providers: getStorageProvider (utils/storage/index.ts),
\* S3StorageProvider (providers/s3.ts), GCSStorageProvider (providers/gcs.ts)

\* a value of process.env or of a patch is truthy: neither undefined nor ''
Truthy(v) == v # None /\ v[1] # ""

\* `a || b`
Or(a, b) == IF Truthy(a) THEN a ELSE b

\* String.prototype.toLowerCase on the texts the model uses
ToLowerCase(s) ==
    CASE s = "AWS" -> "aws"
      [] s = "GCS" -> "gcs"
      [] s = "customTime" -> "customtime"
      [] s = "Note" -> "note"
      [] s = "UploaderIdentityKey" -> "uploaderidentitykey"
      [] OTHER -> s

\* m with key k set to v
Put(m, k, v) == [x \in DOMAIN m \cup {k} |-> IF x = k THEN v ELSE m[x]]

\* `new Date(ms).toISOString()`: the timestamp of ms, the record DateParse
\* reads
ToISOString(ms) == [sec |-> ms \div 1000, ms |-> ms % 1000]

\* ---- process.env

Env(provider, storageBucket, awsBucket, gcpBucket, project) ==
    [STORAGE_PROVIDER |-> provider, STORAGE_BUCKET_NAME |-> storageBucket,
     AWS_BUCKET_NAME |-> awsBucket, GCP_BUCKET_NAME |-> gcpBucket,
     GCP_PROJECT_ID |-> project]

\* the environments of the model: S3 by either bucket variable, GCS by
\* default and by an empty STORAGE_PROVIDER, S3 without a bucket, GCS
\* without a project, a provider that is not supported
EnvList ==
    << Env(Some("aws"), Some("bucket"), None, None, None),
       Env(Some("AWS"), None, Some("bucket"), None, None),
       Env(None, None, None, Some("bucket"), Some("project")),
       Env(Some(""), Some("bucket"), None, None, Some("project")),
       Env(Some("aws"), None, None, Some("bucket"), Some("project")),
       Env(Some("gcs"), Some("bucket"), None, None, None),
       Env(Some("azure"), Some("bucket"), None, None, Some("project")) >>

Envs == {EnvList[i] : i \in 1..Len(EnvList)}

\* ---- getStorageProvider, resetStorageProvider

\* providers constructed in one run of the model
MaxInstances == 3

\* (mutant) the cached instance is not looked at
NeedsConstructionAlways(sp) == TRUE

\* `if (!storageProvider)`
NeedsConstruction(sp) == sp = None

\* `(process.env.STORAGE_PROVIDER || 'gcs').toLowerCase()`
ProviderType(e) == ToLowerCase(Or(e.STORAGE_PROVIDER, Some("gcs"))[1])

\* `STORAGE_BUCKET_NAME || AWS_BUCKET_NAME || ''`
S3BucketName(e) ==
    Or(e.STORAGE_BUCKET_NAME, Or(e.AWS_BUCKET_NAME, Some("")))[1]

\* `STORAGE_BUCKET_NAME || GCP_BUCKET_NAME || ''`
GCSBucketName(e) ==
    Or(e.STORAGE_BUCKET_NAME, Or(e.GCP_BUCKET_NAME, Some("")))[1]

Constructed(p) == [ok |-> TRUE, provider |-> Some(p), error |-> ""]
ConstructionThrew(msg) == [ok |-> FALSE, provider |-> None, error |-> msg]

\* `new S3StorageProvider()`, the instance numbered id
NewS3StorageProvider(e, id) ==
    IF S3BucketName(e) = ""
    THEN ConstructionThrew("Missing required AWS S3 bucket name environment variable.")
    ELSE Constructed([name |-> "aws", bucketName |-> S3BucketName(e), id |-> id])

\* `new GCSStorageProvider()`, the instance numbered id
NewGCSStorageProvider(e, id) ==
    IF GCSBucketName(e) = "" \/ ~Truthy(e.GCP_PROJECT_ID)
    THEN ConstructionThrew("Missing required Google Cloud Storage environment variables.")
    ELSE Constructed([name |-> "gcs", bucketName |-> GCSBucketName(e), id |-> id])

\* the switch of getStorageProvider
Construct(e, id) ==
    CASE ProviderType(e) = "gcs" -> NewGCSStorageProvider(e, id)
      [] ProviderType(e) = "aws" -> NewS3StorageProvider(e, id)
      [] OTHER -> ConstructionThrew("Unsupported storage provider")

\* what a call of the storage layer returned, and what it threw
Returned(op, v) == [op |-> op, status |-> "returned", value |-> v]
Rejected(op, e) == [op |-> op, status |-> "threw", error |-> e]
NoCall == [op |-> "none", status |-> "none"]

\* the callers of updateObjectMetadata: requests served by the one process
NumCallers == 2
Callers == 1..NumCallers

\* no updateObjectMetadata call is between its two awaits
Quiet == \A c \in Callers : upd[c].pc = "idle"

\* getStorageProvider()
GetStorageProvider ==
    /\ Quiet
    /\ IF ~NeedsConstruction(storageProvider)
       THEN /\ call' = Returned("getStorageProvider", storageProvider[1])
            /\ handedOut' = handedOut \cup {storageProvider[1]}
            /\ UNCHANGED <<storageProvider, instances, built>>
       ELSE /\ instances < MaxInstances
            /\ LET c == Construct(env, instances + 1) IN
               IF c.ok
               THEN /\ storageProvider' = c.provider
                    /\ instances' = instances + 1
                    /\ built' = built + 1
                    /\ handedOut' = handedOut \cup {c.provider[1]}
                    /\ call' = Returned("getStorageProvider", c.provider[1])
               ELSE /\ call' = Rejected("getStorageProvider", c.error)
                    /\ UNCHANGED <<storageProvider, instances, built, handedOut>>
    /\ UNCHANGED <<nowMs, rvars, hvars, env, bucket, grant, upd>>

\* resetStorageProvider()
ResetStorageProvider ==
    /\ Quiet
    /\ storageProvider' = None
    /\ built' = 0
    /\ handedOut' = {}
    /\ call' = Returned("resetStorageProvider", None)
    /\ UNCHANGED <<nowMs, rvars, hvars, env, instances, bucket, grant, upd>>

\* the process environment is set anew (a test, a redeployment)
SetEnv(e) ==
    /\ Quiet
    /\ e # env
    /\ env' = e
    /\ UNCHANGED <<nowMs, rvars, hvars, storageProvider, instances, built,
                   handedOut, bucket, grant, upd, call>>

\* ---- generateUploadURL

\* `Expires: 604800` of createPresignedPost, seconds
S3Expires == 604800

\* `expires: Date.now() + 604000 * 1000` of getSignedUrl, seconds
GCSExpires == 604000

\* the parameters generateUploadURL is called with
Sizes == {3, 1024}
ExpiryTimes == {0, 3600, 7200, 2000000}
Owners == {"U1", "U2"}
UploadParams ==
    { [size |-> 3, expiryTime |-> 3600, objectIdentifier |-> <<"a">>,
       uploaderIdentityKey |-> "U1"],
      [size |-> 1024, expiryTime |-> 7200, objectIdentifier |-> <<"a">>,
       uploaderIdentityKey |-> "U2"] }

\* (mutant) customtime without the five minutes
S3CustomTimeNoGrace(expiryTime) == ToISOString(expiryTime * 1000)

\* s3.ts: `new Date((expiryTime + 300) * 1000).toISOString()`
S3CustomTime(expiryTime) == ToISOString((expiryTime + 300) * 1000)

\* gcs.ts: `new Date((expiryTime + 300) * 1000).toISOString()`
GCSCustomTime(expiryTime) == ToISOString((expiryTime + 300) * 1000)

\* (mutant) the fields are not made conditions of the policy
ExactConditionsKeyOnly(fields, bucketName, key) ==
    ("bucket" :> bucketName) @@ ("key" :> key)

\* createPresignedPost makes every field, the bucket and the key an
\* exact-match condition of the policy
ExactConditions(fields, bucketName, key) ==
    fields @@ ("bucket" :> bucketName) @@ ("key" :> key)

\* createPresignedPost: the URL of the bucket and the form fields, among
\* them the signed policy: when it expires, the content-length-range, the
\* starts-with conditions, the exact-match conditions
CreatePresignedPost(bucketName, key, range, startsWith, fields, expires, now) ==
    [url |-> [backend |-> "aws", bucket |-> bucketName],
     fields |->
        fields @@ ("bucket" :> bucketName) @@ ("key" :> key) @@
        ("Policy" :>
            [expiration |-> now + expires * 1000,
             range |-> range,
             startsWith |-> startsWith,
             eq |-> ExactConditions(fields, bucketName, key)])]

\* S3StorageProvider.generateUploadURL
S3GenerateUploadURL(p, params, now) ==
    LET objectKey == CdnPrefix \o params.objectIdentifier
        customTime == S3CustomTime(params.expiryTime)
        post == CreatePresignedPost(
                    p.bucketName, objectKey, <<params.size, params.size>>,
                    { <<"x-amz-meta-uploaderidentitykey", "">>,
                      <<"x-amz-meta-customtime", "">> },
                    ("x-amz-meta-uploaderidentitykey" :> params.uploaderIdentityKey)
                    @@ ("x-amz-meta-customtime" :> customTime),
                    S3Expires, now)
    IN  [uploadURL |-> post.url,
         requiredHeaders |-> ("content-type" :> "multipart/form-data"),
         formFields |-> Some(post.fields)]

\* bucketFile.getSignedUrl, action 'write': the signature covers the method,
\* the key, the expiry and the extension headers
GetSignedUrl(bucketName, key, expires, extensionHeaders) ==
    [backend |-> "gcs", bucket |-> bucketName, key |-> key, method |-> "PUT",
     expires |-> expires, signedHeaders |-> extensionHeaders]

\* GCSStorageProvider.generateUploadURL; an UploadResponse without
\* formFields has the property undefined
GCSGenerateUploadURL(p, params, now) ==
    LET customTime == GCSCustomTime(params.expiryTime)
        headers == ("content-length" :> NumToString(params.size))
                   @@ ("x-goog-meta-uploaderidentitykey" :> params.uploaderIdentityKey)
                   @@ ("x-goog-custom-time" :> customTime)
    IN  [uploadURL |-> GetSignedUrl(p.bucketName,
                                    CdnPrefix \o params.objectIdentifier,
                                    now + GCSExpires * 1000, headers),
         requiredHeaders |-> headers,
         formFields |-> None]

\* storage.generateUploadURL(params) on the provider getStorageProvider
\* returns
GenerateUploadURL(params) ==
    /\ Quiet
    /\ storageProvider # None
    /\ LET p == storageProvider[1]
           response == IF p.name = "aws"
                       THEN S3GenerateUploadURL(p, params, nowMs)
                       ELSE GCSGenerateUploadURL(p, params, nowMs)
       IN  /\ grant' = Some([provider |-> p.name, params |-> params,
                             issuedAt |-> nowMs, response |-> response])
           /\ call' = Returned("generateUploadURL", response)
    /\ UNCHANGED <<nowMs, rvars, hvars, env, storageProvider, instances,
                   built, handedOut, bucket, upd>>

\* ---- the buckets and the upload of a client

Backends == {"aws", "gcs"}
Keys == {KeyA, KeyB}

\* a stored object: its size, content type, custom metadata and, on GCS,
\* its Custom-Time field
StoredObject(size, contentType, metadata, customTime) ==
    [size |-> size, contentType |-> contentType, metadata |-> metadata,
     customTime |-> customTime]

\* the object each bucket holds at cdn/a from the start
Seeded(backend) ==
    IF backend = "aws"
    THEN StoredObject(7, Some("text/plain"),
                      ("uploaderidentitykey" :> "U1") @@ ("note" :> "n")
                      @@ ("customtime" :> ToISOString(3900000)),
                      None)
    ELSE StoredObject(7, Some("text/plain"),
                      ("uploaderidentitykey" :> "U1") @@ ("note" :> "n"),
                      Some(ToISOString(3900000)))

\* what a client changes of the form the grant gave it
S3Form(fields, key, owner) ==
    [f \in DOMAIN fields |->
        IF f = "key" THEN key
        ELSE IF f = "x-amz-meta-uploaderidentitykey" THEN owner
        ELSE fields[f]]

\* S3 checks a POST against the signed policy of its form
S3Accepts(form, bodySize, now) ==
    LET policy == form["Policy"] IN
    /\ now <= policy.expiration
    /\ policy.range[1] <= bodySize /\ bodySize <= policy.range[2]
    /\ \A f \in DOMAIN policy.eq : form[f] = policy.eq[f]
    /\ \A f \in DOMAIN form \ {"Policy"} :
          f \in DOMAIN policy.eq \/ \E c \in policy.startsWith : c[1] = f

\* the object S3 stores for an accepted POST: x-amz-meta-* fields become its
\* metadata, no Content-Type field its default type
S3Stores(form, bodySize) ==
    StoredObject(bodySize, Some("binary/octet-stream"),
                 ("uploaderidentitykey" :> form["x-amz-meta-uploaderidentitykey"])
                 @@ ("customtime" :> form["x-amz-meta-customtime"]),
                 None)

\* the headers a client sends on its PUT: the true length of its body, an
\* owner, the custom time of the grant
GCSHeaders(headers, bodySize, owner) ==
    [h \in DOMAIN headers |->
        IF h = "content-length" THEN NumToString(bodySize)
        ELSE IF h = "x-goog-meta-uploaderidentitykey" THEN owner
        ELSE headers[h]]

\* GCS checks a request against the signature of the URL
GCSAccepts(url, method, key, headers, now) ==
    /\ method = url.method
    /\ key = url.key
    /\ now <= url.expires
    /\ \A h \in DOMAIN url.signedHeaders :
          h \in DOMAIN headers /\ headers[h] = url.signedHeaders[h]

\* the object GCS stores for an accepted PUT: x-goog-meta-* headers become
\* its custom metadata, x-goog-custom-time its Custom-Time field
GCSStores(headers, bodySize) ==
    StoredObject(bodySize, Some("application/octet-stream"),
                 ("uploaderidentitykey" :> headers["x-goog-meta-uploaderidentitykey"]),
                 Some(headers["x-goog-custom-time"]))

Methods == {"PUT", "POST"}

\* A client uploads size bytes under the grant, by the method, to the key
\* and with the owner value it chooses; the backend of the grant accepts
\* and stores the object, or rejects the request
Upload(method, key, size, owner) ==
    /\ Quiet
    /\ grant # None
    /\ LET g == grant[1]
           form == S3Form(g.response.formFields[1], key, owner)
           headers == GCSHeaders(g.response.requiredHeaders, size, owner)
           accepted ==
               IF g.provider = "aws"
               THEN method = "POST" /\ S3Accepts(form, size, nowMs)
               ELSE GCSAccepts(g.response.uploadURL, method, key, headers, nowMs)
           stored ==
               IF g.provider = "aws" THEN S3Stores(form, size)
               ELSE GCSStores(headers, size)
       IN  /\ bucket' = IF accepted
                        THEN [bucket EXCEPT ![g.provider][key] = Some(stored)]
                        ELSE bucket
           /\ call' = [op |-> "upload",
                       status |-> IF accepted THEN "accepted" ELSE "rejected",
                       backend |-> g.provider, method |-> method, key |-> key,
                       size |-> size, owner |-> owner]
    /\ UNCHANGED <<nowMs, rvars, hvars, env, storageProvider, instances,
                   built, handedOut, grant, upd>>

\* ---- getObjectMetadata, objectExists

\* what the SDK throws for a HeadObject that S3 answers with 404, and for
\* one it refuses or that does not get through
S3Errors ==
    { [kind |-> "notfound", name |-> "NotFound", httpStatusCode |-> Some(404)],
      [kind |-> "notfound", name |-> "NotFound", httpStatusCode |-> None],
      [kind |-> "notfound", name |-> "UnknownError", httpStatusCode |-> Some(404)],
      [kind |-> "other", name |-> "AccessDenied", httpStatusCode |-> Some(403)],
      [kind |-> "other", name |-> "TimeoutError", httpStatusCode |-> None] }

\* the errors of the GCS API: 404, 403, no answer
GCSErrors ==
    { [kind |-> "notfound", code |-> Some(404)],
      [kind |-> "other", code |-> Some(403)],
      [kind |-> "other", code |-> None] }

Found == [kind |-> "found"]

\* How a backend may answer a request for the metadata of a key: with the
\* object when it holds one, with a not-found error when it holds none, with
\* another error at any time
Answers(backend, key) ==
    (IF bucket[backend][key] # None
     THEN {Found}
     ELSE {e \in (IF backend = "aws" THEN S3Errors ELSE GCSErrors) :
             e.kind = "notfound"})
    \cup {e \in (IF backend = "aws" THEN S3Errors ELSE GCSErrors) :
             e.kind = "other"}

\* the response of HeadObject for a stored object
HeadObjectOutput(obj) ==
    [ContentLength |-> obj.size, ContentType |-> obj.contentType,
     Metadata |-> obj.metadata]

\* S3StorageProvider.getObjectMetadata, from the response of HeadObject
S3ObjectMetadata(response) ==
    [size |-> response.ContentLength,
     contentType |-> IF Truthy(response.ContentType)
                     THEN response.ContentType[1]
                     ELSE "application/octet-stream",
     customMetadata |-> response.Metadata]

\* the resource file.getMetadata() answers with: the size as text
GCSResource(obj) ==
    [size |-> NumToString(obj.size), contentType |-> obj.contentType,
     customTime |-> obj.customTime, metadata |-> obj.metadata]

\* GCSStorageProvider.getObjectMetadata, from the resource
GCSObjectMetadata(metadata) ==
    [size |-> ParseInt(metadata.size)[1],
     contentType |-> IF Truthy(metadata.contentType)
                     THEN metadata.contentType[1]
                     ELSE "application/octet-stream",
     customMetadata |-> metadata.metadata]

\* storage.getObjectMetadata(key): the answer of the backend, or its error
GetObjectMetadata(key) ==
    /\ Quiet
    /\ storageProvider # None
    /\ \E a \in Answers(storageProvider[1].name, key) :
       LET backend == storageProvider[1].name
           obj == bucket[backend][key][1]
       IN  call' =
             IF a.kind # "found"
             THEN Rejected("getObjectMetadata", a)
             ELSE [op |-> "getObjectMetadata", status |-> "returned",
                   backend |-> backend, key |-> key,
                   value |-> IF backend = "aws"
                             THEN S3ObjectMetadata(HeadObjectOutput(obj))
                             ELSE GCSObjectMetadata(GCSResource(obj))]
    /\ UNCHANGED <<nowMs, rvars, hvars, env, storageProvider, instances,
                   built, handedOut, bucket, grant, upd>>

\* (mutant) every error is taken for a missing object
IsNotFoundAny(error) == TRUE

\* `error.name === 'NotFound' || error.$metadata?.httpStatusCode === 404`
IsNotFound(error) ==
    error.name = "NotFound" \/ error.httpStatusCode = Some(404)

\* S3StorageProvider.objectExists, from what getObjectMetadata did
S3ObjectExists(a) ==
    IF a.kind = "found" THEN Returned("objectExists", TRUE)
    ELSE IF IsNotFound(a) THEN Returned("objectExists", FALSE)
    ELSE Rejected("objectExists", a)

\* GCSStorageProvider.objectExists: file.exists() answers false for the
\* status 404 and rejects with every other error
GCSObjectExists(a) ==
    IF a.kind = "found" THEN Returned("objectExists", TRUE)
    ELSE IF a.code = Some(404) THEN Returned("objectExists", FALSE)
    ELSE Rejected("objectExists", a)

\* storage.objectExists(key), the backend answering a
ObjectExists(key) ==
    /\ Quiet
    /\ storageProvider # None
    /\ \E a \in Answers(storageProvider[1].name, key) :
       LET backend == storageProvider[1].name
           r == IF backend = "aws" THEN S3ObjectExists(a) ELSE GCSObjectExists(a)
       IN  call' = [op |-> "objectExists", status |-> r.status,
                    backend |-> backend, key |-> key, answer |-> a,
                    outcome |-> r]
    /\ UNCHANGED <<nowMs, rvars, hvars, env, storageProvider, instances,
                   built, handedOut, bucket, grant, upd>>

\* ---- S3StorageProvider.updateObjectMetadata

\* a value of a patch: an ISO timestamp or another string
Iso(t) == [type |-> "iso", value |-> t]
Str(s) == [type |-> "string", value |-> s]

\* `if (v)` for a value of a patch: every string but '' is truthy
JsTruthy(v) == v.type = "iso" \/ v.value # ""

\* the patches updateObjectMetadata is called with, each the list of its
\* keys and values in the order of Object.keys
PatchList ==
    << << [k |-> "customTime", v |-> Iso(ToISOString(9900000))] >>,
       << [k |-> "Note", v |-> Str("m")] >>,
       << [k |-> "customTime", v |-> Str("")],
          [k |-> "tag", v |-> Str("t")] >>,
       << [k |-> "UploaderIdentityKey", v |-> Str("U2")] >> >>

\* `metadata.customTime`
RECURSIVE PatchCustomTime(_)
PatchCustomTime(patch) ==
    IF patch = <<>> THEN None
    ELSE IF Head(patch).k = "customTime" THEN Some(Head(patch).v)
    ELSE PatchCustomTime(Tail(patch))

\* the forEach over Object.keys(metadata)
RECURSIVE AddOtherFields(_, _)
AddOtherFields(newMetadata, patch) ==
    IF patch = <<>> THEN newMetadata
    ELSE AddOtherFields(
             IF Head(patch).k # "customTime"
             THEN Put(newMetadata, ToLowerCase(Head(patch).k), Head(patch).v.value)
             ELSE newMetadata,
             Tail(patch))

\* (mutant) the new metadata starts empty
NewMetadataFromPatch(current, patch) ==
    AddOtherFields(
        IF PatchCustomTime(patch) # None /\ JsTruthy(PatchCustomTime(patch)[1])
        THEN ("customtime" :> PatchCustomTime(patch)[1].value)
        ELSE << >>,
        patch)

\* `newMetadata`: the current metadata, customTime if truthy, the other
\* fields lower-cased
NewMetadata(current, patch) ==
    AddOtherFields(
        IF PatchCustomTime(patch) # None /\ JsTruthy(PatchCustomTime(patch)[1])
        THEN Put(current, "customtime", PatchCustomTime(patch)[1].value)
        ELSE current,
        patch)

\* CopyObject with MetadataDirective REPLACE: the object with the metadata
\* and the content type of the command, its bytes kept
Copied(obj, newMetadata, contentType) ==
    [obj EXCEPT !.metadata = newMetadata,
                !.contentType = IF contentType = None
                                THEN Some("binary/octet-stream")
                                ELSE contentType]

NoUpdate == [c \in Callers |-> [pc |-> "idle"]]

\* (mutant) an error of the SDK is swallowed
Swallowed(op, e) == [op |-> op, status |-> "returned", error |-> e]

\* an `await` outside any try: the error of the SDK rejects the call
Propagated(op, e) == Rejected(op, e)

\* updateObjectMetadata(key, patch) of the caller c up to the await of
\* HeadObject, and HeadObject resolving: up to the await of CopyObject
UpdateHeadOk(c, key, patch) ==
    /\ upd[c].pc = "idle"
    /\ storageProvider # None /\ storageProvider[1].name = "aws"
    /\ Found \in Answers("aws", key)
    /\ LET currentObject == HeadObjectOutput(bucket["aws"][key][1]) IN
       upd' = [upd EXCEPT ![c] =
                 [pc |-> "copy", key |-> key, patch |-> patch,
                  before |-> bucket["aws"][key][1],
                  newMetadata |-> NewMetadata(currentObject.Metadata, patch),
                  ContentType |-> currentObject.ContentType]]
    /\ call' = [op |-> "updateObjectMetadata", status |-> "pending",
                backend |-> "aws", caller |-> c]
    /\ UNCHANGED <<nowMs, rvars, hvars, env, storageProvider, instances,
                   built, handedOut, bucket, grant>>

\* HeadObject rejecting
UpdateHeadFail(c, key, patch) ==
    /\ upd[c].pc = "idle"
    /\ storageProvider # None /\ storageProvider[1].name = "aws"
    /\ \E a \in Answers("aws", key) \ {Found} :
          call' = Propagated("updateObjectMetadata", a)
                  @@ [backend |-> "aws", caller |-> c, key |-> key,
                      before |-> bucket["aws"][key], step |-> "head"]
    /\ UNCHANGED <<nowMs, rvars, hvars, env, storageProvider, instances,
                   built, handedOut, bucket, grant, upd>>

\* CopyObject resolving: the object is replaced by its copy
UpdateCopyOk(c) ==
    /\ upd[c].pc = "copy"
    /\ bucket["aws"][upd[c].key] # None
    /\ bucket' = [bucket EXCEPT !["aws"][upd[c].key] =
                     Some(Copied(@[1], upd[c].newMetadata, upd[c].ContentType))]
    /\ call' = [op |-> "updateObjectMetadata", status |-> "returned",
                backend |-> "aws", caller |-> c,
                key |-> upd[c].key, patch |-> upd[c].patch,
                before |-> upd[c].before]
    /\ upd' = [upd EXCEPT ![c] = [pc |-> "idle"]]
    /\ UNCHANGED <<nowMs, rvars, hvars, env, storageProvider, instances,
                   built, handedOut, grant>>

\* CopyObject rejecting: S3 has copied nothing
UpdateCopyFail(c) ==
    /\ upd[c].pc = "copy"
    /\ \E a \in Answers("aws", upd[c].key) \ {Found} :
          call' = Propagated("updateObjectMetadata", a)
                  @@ [backend |-> "aws", caller |-> c, key |-> upd[c].key,
                      before |-> Some(upd[c].before), step |-> "copy"]
    /\ upd' = [upd EXCEPT ![c] = [pc |-> "idle"]]
    /\ UNCHANGED <<nowMs, rvars, hvars, env, storageProvider, instances,
                   built, handedOut, bucket, grant>>

\* ---- GCSStorageProvider.updateObjectMetadata

\* the forEach over Object.keys(metadata): the keys as they are written
RECURSIVE AddGcsFields(_, _)
AddGcsFields(gcsMetadata, patch) ==
    IF patch = <<>> THEN gcsMetadata
    ELSE AddGcsFields(
             IF Head(patch).k # "customTime"
             THEN Put(gcsMetadata, Head(patch).k, Head(patch).v.value)
             ELSE gcsMetadata,
             Tail(patch))

\* `gcsMetadata`: customTime if truthy, the other fields of the patch
GcsMetadata(patch) ==
    AddGcsFields(
        IF PatchCustomTime(patch) # None /\ JsTruthy(PatchCustomTime(patch)[1])
        THEN ("customTime" :> PatchCustomTime(patch)[1].value)
        ELSE << >>,
        patch)

\* file.setMetadata(gcsMetadata) patches the object resource: customTime is
\* a field of the resource, the custom metadata are its field `metadata`,
\* and a name that is no field of the resource changes nothing
SetMetadata(obj, gcsMetadata) ==
    [obj EXCEPT
       !.customTime = IF "customTime" \in DOMAIN gcsMetadata
                      THEN Some(gcsMetadata["customTime"]) ELSE @,
       !.metadata = IF "metadata" \in DOMAIN gcsMetadata
                    THEN gcsMetadata["metadata"] @@ @ ELSE @]

\* updateObjectMetadata(key, patch) on GCS, setMetadata resolving
GCSUpdateOk(c, key, patch) ==
    /\ upd[c].pc = "idle"
    /\ storageProvider # None /\ storageProvider[1].name = "gcs"
    /\ Found \in Answers("gcs", key)
    /\ bucket' = [bucket EXCEPT !["gcs"][key] =
                     Some(SetMetadata(@[1], GcsMetadata(patch)))]
    /\ call' = [op |-> "updateObjectMetadata", status |-> "returned",
                backend |-> "gcs", caller |-> c, key |-> key, patch |-> patch,
                before |-> bucket["gcs"][key][1]]
    /\ UNCHANGED <<nowMs, rvars, hvars, env, storageProvider, instances,
                   built, handedOut, grant, upd>>

\* setMetadata rejecting
GCSUpdateFail(c, key, patch) ==
    /\ upd[c].pc = "idle"
    /\ storageProvider # None /\ storageProvider[1].name = "gcs"
    /\ \E a \in Answers("gcs", key) \ {Found} :
          call' = Propagated("updateObjectMetadata", a)
                  @@ [backend |-> "gcs", caller |-> c, key |-> key,
                      before |-> bucket["gcs"][key], step |-> "setMetadata"]
    /\ UNCHANGED <<nowMs, rvars, hvars, env, storageProvider, instances,
                   built, handedOut, bucket, grant, upd>>

\* ---- the storage layer as a whole

\* the instants of the model: the start, and just after 604000 and after
\* 604800 seconds
StorageTimes == <<0, GCSExpires * 1000 + 1, S3Expires * 1000 + 1>>

\* time passes between two calls
StorageTick ==
    /\ Quiet
    /\ \E i \in 1..(Len(StorageTimes) - 1) :
          nowMs = StorageTimes[i] /\ nowMs' = StorageTimes[i + 1]
    /\ UNCHANGED <<rvars, hvars, svars>>

\* the storage layer unused
SIdle ==
    /\ env = EnvList[1]
    /\ storageProvider = None
    /\ instances = 0
    /\ built = 0
    /\ handedOut = {}
    /\ bucket = [b \in Backends |-> [k \in Keys |-> None]]
    /\ grant = None
    /\ upd = NoUpdate
    /\ call = NoCall

\* the buckets at the start: each holds an object at cdn/a, none at cdn/b
SeededBuckets ==
    [b \in Backends |->
        [k \in Keys |-> IF k = KeyA THEN Some(Seeded(b)) ELSE None]]

\* the storage layer when the process starts: no provider yet
SInit ==
    /\ env \in Envs
    /\ storageProvider = None
    /\ instances = 0
    /\ built = 0
    /\ handedOut = {}
    /\ bucket = SeededBuckets
    /\ grant = None
    /\ upd = NoUpdate
    /\ call = NoCall

\* the environments the providers of the model are used under
ReadyEnvs == {EnvList[1], EnvList[3]}

\* the storage layer after a first getStorageProvider() has returned
SReady ==
    /\ env \in ReadyEnvs
    /\ Construct(env, 1).ok
    /\ storageProvider = Construct(env, 1).provider
    /\ instances = 1
    /\ built = 1
    /\ handedOut = {storageProvider[1]}
    /\ bucket = SeededBuckets
    /\ grant = None
    /\ upd = NoUpdate
    /\ call = Returned("getStorageProvider", storageProvider[1])

--------------------------------------------------------------------------
\* Specifications

\* the event handler
Init == nowMs = 0 /\ RIdle /\ HInit /\ SIdle

Next ==
    \/ \E B \in SUBSET Msgs : ReceiveOk(B)
    \/ ReceiveFail
    \/ WaitDone
    \/ \E m \in Msgs : HeadOk(m)
    \/ \E m \in Msgs : HeadFail(m)
    \/ \E m \in Msgs : GetOk(m)
    \/ \E m \in Msgs : GetFail(m)
    \/ \E m \in Msgs : PostOk(m)
    \/ \E m \in Msgs : PostFail(m)
    \/ \E m \in Msgs : DeleteOk(m)
    \/ \E m \in Msgs : DeleteFail(m)
    \/ Shutdown
    \/ Tick

Spec == Init /\ [][Next]_vars

\* The event handler with no shutdown signal, the queue and the services it
\* calls behaving as a working deployment does: SQS hands out every message
\* it holds again and again, and a call made for a message fails at most
\* on the deliveries before its last one. Every continuation that is ready
\* is run by the event loop.
MayFail(m) == receiveCount[m] < MaxReceives

LiveNext ==
    \/ \E B \in SUBSET Msgs : ReceiveOk(B)
    \/ ReceiveFail
    \/ WaitDone
    \/ \E m \in Msgs : HeadOk(m)
    \/ \E m \in Msgs : MayFail(m) /\ HeadFail(m)
    \/ \E m \in Msgs : GetOk(m)
    \/ \E m \in Msgs : MayFail(m) /\ GetFail(m)
    \/ \E m \in Msgs : PostOk(m)
    \/ \E m \in Msgs : MayFail(m) /\ PostFail(m)
    \/ \E m \in Msgs : DeleteOk(m)
    \/ \E m \in Msgs : MayFail(m) /\ DeleteFail(m)

LiveSpec == Init /\ [][LiveNext]_vars /\ WF_vars(LiveNext)

\* one call of the resolver
ResolverInit == RInit /\ HIdle /\ SIdle

ResolverNext ==
    \/ ListOutputsOk
    \/ ListOutputsFail
    \/ ScanStep
    \/ ScanEnd
    \/ FetchOk
    \/ FetchFail

ResolverSpec == ResolverInit /\ [][ResolverNext]_vars

\* getStorageProvider and resetStorageProvider called again and again, the
\* environment changing in between
FactoryInit == nowMs = 0 /\ RIdle /\ HIdle /\ SInit

FactoryNext ==
    \/ GetStorageProvider
    \/ ResetStorageProvider
    \/ \E e \in Envs : SetEnv(e)

FactorySpec == FactoryInit /\ [][FactoryNext]_vars

\* the calls of one provider, one after the other, and the uploads of
\* clients
StorageInit == nowMs = 0 /\ RIdle /\ HIdle /\ SReady

StorageNext ==
    \/ \E params \in UploadParams : GenerateUploadURL(params)
    \/ \E method \in Methods, key \in Keys, size \in Sizes, owner \in Owners :
          Upload(method, key, size, owner)
    \/ \E key \in Keys : GetObjectMetadata(key)
    \/ \E key \in Keys : ObjectExists(key)
    \/ \E key \in Keys, i \in 1..Len(PatchList) : UpdateHeadOk(1, key, PatchList[i])
    \/ \E key \in Keys, i \in 1..Len(PatchList) : UpdateHeadFail(1, key, PatchList[i])
    \/ UpdateCopyOk(1)
    \/ UpdateCopyFail(1)
    \/ \E key \in Keys, i \in 1..Len(PatchList) : GCSUpdateOk(1, key, PatchList[i])
    \/ \E key \in Keys, i \in 1..Len(PatchList) : GCSUpdateFail(1, key, PatchList[i])
    \/ StorageTick

StorageSpec == StorageInit /\ [][StorageNext]_vars

\* updateObjectMetadata calls of several requests on the S3 provider, their
\* awaits interleaving as the event loop allows
RaceInit == StorageInit /\ storageProvider[1].name = "aws"

RaceNext ==
    \/ \E c \in Callers, key \in Keys, i \in 1..Len(PatchList) :
          UpdateHeadOk(c, key, PatchList[i])
    \/ \E c \in Callers, key \in Keys, i \in 1..Len(PatchList) :
          UpdateHeadFail(c, key, PatchList[i])
    \/ \E c \in Callers : UpdateCopyOk(c)
    \/ \E c \in Callers : UpdateCopyFail(c)

RaceSpec == RaceInit /\ [][RaceNext]_vars

--------------------------------------------------------------------------
\* Properties of the resolver

\* a candidate that has both an object_identifier_ and an expiry_time_ tag
BothTags(out) ==
    /\ out.tags # None
    /\ \E i \in 1..Len(out.tags[1]) : StartsWith(out.tags[1][i], ObjectIdPrefix)
    /\ \E i \in 1..Len(out.tags[1]) : StartsWith(out.tags[1][i], ExpiryPrefix)

Eligible == {i \in 1..Len(outputs) : BothTags(outputs[i])}

\* the parsed expiry and the identifier of an eligible candidate
ExpiryAt(i) == ExpiryNum(FindPrefix(outputs[i].tags[1], ExpiryPrefix)[1])
IdAt(i) == DecodeObjectId(FindPrefix(outputs[i].tags[1], ObjectIdPrefix)[1])

ScanOver == rpc = "scan" /\ outIdx > Len(outputs)
PastChecks == rpc \in {"threw", "fetch", "returned"} /\ result.error # "WalletError"

\* C2: whenever some candidate has both tags, the scan ends with the
\* identifier of a candidate of maximal parsed expiry among them selected
C2_SelectsMaxExpiry ==
    (ScanOver /\ Eligible # {}) =>
        \E i \in Eligible :
            /\ \A j \in Eligible : ExpiryAt(i) >= ExpiryAt(j)
            /\ objectIdentifier = Some(IdAt(i))

C4_NoneEligibleThrows ==
    (PastChecks /\ Eligible = {}) =>
        /\ result = Threw("NoAdvertisementFound")
        /\ adapterCalls = {}

C4_Witness ==
    /\ rpc = "threw" /\ result.error = "NoAdvertisementFound"
    /\ Len(outputs) = 2 /\ Eligible = {}
    /\ \E i \in 1..Len(outputs) : outputs[i].tags # None /\ outputs[i].tags[1] # <<>>

--------------------------------------------------------------------------
\* Properties of the event handler

Records(m) == IF body[m].Records = None THEN <<>> ELSE body[m].Records[1]

\* record i of message m is a create event
IsCreate(m, i) ==
    /\ Records(m)[i].eventName # None
    /\ StartsWith(Records(m)[i].eventName[1], CreatedPrefix)

\* record i of message m is a create event of a key under cdn/ (its key)
CdnCreate(m, i) ==
    /\ IsCreate(m, i)
    /\ DecodedKey[Records(m)[i].key] # None
    /\ StartsWith(DecodedKey[Records(m)[i].key][1], <<"c", "d", "n", "/">>)
RecordKey(m, i) == DecodedKey[Records(m)[i].key][1]

\* record i of message m is a create event of a key outside cdn/
OtherCreate(m, i) ==
    /\ IsCreate(m, i)
    /\ DecodedKey[Records(m)[i].key] # None
    /\ ~StartsWith(DecodedKey[Records(m)[i].key][1], <<"c", "d", "n", "/">>)

\* the stored object of a cdn/ key carries uploaderidentitykey
CarriesUploader(k) ==
    /\ k \in DOMAIN Objects
    /\ Objects[k].Metadata.uploaderidentitykey \notin {None, Some("")}

DeleteIssued(m) == <<"delete", 0>> \in pm[m].calls

\* in the current delivery of m the body parsed and every create record was
\* processed without error
AllProcessed(m) ==
    /\ body[m].parses
    /\ \A i \in 1..Len(Records(m)) :
         /\ Records(m)[i].eventName # None
         /\ IsCreate(m, i) => DecodedKey[Records(m)[i].key] # None
         /\ CdnCreate(m, i) =>
              /\ {<<"head", i>>, <<"get", i>>, <<"post", i>>} \subseteq pm[m].done
              /\ CarriesUploader(RecordKey(m, i))

\* a call of the current delivery of m, other than the delete, has failed
StepFailed(m) ==
    \E c \in pm[m].calls \ pm[m].done :
        c[1] # "delete" /\ (Settled(pm[m]) \/ c # <<pm[m].pc, pm[m].rec>>)

\* C1: a delete is issued for a message, and the message leaves the queue,
\* only if in that delivery its body parsed and every create record was
\* processed without error; once a step has failed no delete is issued
C1_DeleteOnlyAfterSuccess ==
    \A m \in Msgs :
        /\ (DeleteIssued(m) \/ m \notin queue) => AllProcessed(m)
        /\ (StepFailed(m) \/ ~body[m].parses) => ~DeleteIssued(m)

C1_Witness ==
    \E m, n \in Msgs :
        /\ m \notin queue /\ Records(m) # <<>> /\ CdnCreate(m, 1)
        /\ pm[n].pc = "failed" /\ <<"post", 1>> \in pm[n].calls \ pm[n].done
        /\ n \in queue

\* every create record of m is for a key outside cdn/, and there is one
OnlyOtherCreates(m) ==
    /\ body[m].parses /\ Records(m) # <<>>
    /\ \A i \in 1..Len(Records(m)) : OtherCreate(m, i)

\* C5: for a create record of a key outside cdn/ no HeadObject, GetObject or
\* POST is sent; a message of such records only has its delete issued as
\* soon as it is received, with nothing added to either counter up to there,
\* and leaves the queue when the delete succeeds
C5_NonCdnAcknowledged ==
    \A m \in Msgs :
        /\ \A i \in 1..Len(Records(m)) :
             OtherCreate(m, i) =>
                \A op \in {"head", "get", "post"} : <<op, i>> \notin pm[m].calls
        /\ (OnlyOtherCreates(m) /\ receiveCount[m] > 0) =>
             /\ pm[m].calls = {<<"delete", 0>>}
             /\ pm[m].procd = 0
             /\ pm[m].pc \in {"delete", "deleted"} => pm[m].errs = 0
             /\ pm[m].pc = "deleted" <=> m \notin queue
             /\ pm[m].pc = "failed" => pm[m].errs = 1

C5_Witness ==
    \E m \in Msgs :
        /\ OnlyOtherCreates(m) /\ m \notin queue
        /\ processedEvents = 0 /\ processingErrors = 0

\* message m holds a create record of a cdn/ object without the uploader
\* field
HasOrphan(m) ==
    \E i \in 1..Len(Records(m)) :
        CdnCreate(m, i) /\ ~CarriesUploader(RecordKey(m, i))

\* C6: when HeadObject answers for a cdn/ object without uploaderidentitykey,
\* the message fails in that step with no further call sent, the error
\* counter grows, the message stays in the queue and pollSQS goes on; and a
\* message holding such a record never leaves the queue
C6_MissingUploader ==
    [][\A m \in Msgs :
         /\ ( /\ pm[m].pc = "head"
              /\ <<"head", pm[m].rec>> \in pm'[m].done
              /\ ~CarriesUploader(RecordKey(m, pm[m].rec)) ) =>
                /\ pm'[m].pc = "failed"
                /\ pm'[m].calls = pm[m].calls
                /\ \A op \in {"get", "post"} : <<op, pm[m].rec>> \notin pm'[m].calls
                /\ ~DeleteIssued(m)'
                /\ processingErrors' > processingErrors
                /\ processedEvents' = processedEvents
                /\ m \in queue'
                /\ ppc' \in {"batch", "receive"}
         /\ HasOrphan(m) => m \in queue'
      ]_vars

\* an orphan fails on its second delivery as on its first
C6_Witness ==
    \E m \in Msgs :
        /\ HasOrphan(m) /\ receiveCount[m] = 2
        /\ pm[m].pc = "failed" /\ <<"head", pm[m].rec>> \in pm[m].done
        /\ pm[m].errs = 2
        /\ ppc = "receive"

\* C7 as claimed: the registrations sent for one record of one message
\* agree on every field
C7_RedeliveryAgrees ==
    \A r1, r2 \in registrations :
        (r1.msg = r2.msg /\ r1.rec = r2.rec) => r1.data = r2.data

HasCustomtime(k) == Objects[k].Metadata.customtime # None

\* C7 as amended: they agree on every field when the object carries
\* customtime, and on every field but expiryTime when it does not
C7_RedeliveryAgreesGivenCustomtime ==
    \A r1, r2 \in registrations :
        (r1.msg = r2.msg /\ r1.rec = r2.rec) =>
            /\ [r1.data EXCEPT !.expiryTime = 0] = [r2.data EXCEPT !.expiryTime = 0]
            /\ HasCustomtime(RecordKey(r1.msg, r1.rec)) => r1.data = r2.data

C7_Witness ==
    \E r1, r2 \in registrations :
        /\ r1.msg = r2.msg /\ r1.rec = r2.rec /\ r1.delivery # r2.delivery
        /\ HasCustomtime(RecordKey(r1.msg, r1.rec))
        /\ r1.data = r2.data
        /\ nowMs > 0

\* C9: in the step in which a message fails, pollSQS does not enter its own
\* catch, the failed message stays in the queue, the error counter grows,
\* no other message of the batch is touched, and pollSQS receives again
\* only when the whole batch has settled
C9_FailureIsolated ==
    [][\A m \in Msgs :
         (pm[m] # pm'[m] /\ pm'[m].pc = "failed") =>
            /\ ppc' \in {"batch", "receive"}
            /\ m \in queue'
            /\ processingErrors' > processingErrors
            /\ \A o \in batch \ {m} : pm'[o] = pm[o]
            /\ ppc' = "batch" <=>
                  \E o \in (batch \cup batch') \ {m} : ~Settled(pm'[o])
      ]_vars

C9_Witness ==
    \E m, o \in Msgs :
        /\ batch = {m, o}
        /\ pm[m].pc = "failed" /\ pm[o].pc = "delete"
        /\ <<"post", 1>> \in pm[o].done
        /\ ppc = "batch"

\* C10 as claimed: the process exits only with no message in flight
C10_ExitsBetweenBatches ==
    ppc = "exited" => \A m \in Msgs : pm[m].pc \notin InFlightPcs

\* every record of m is well formed, every cdn/ object it names carries the
\* uploader field, and it names one
Registrable(m) ==
    /\ body[m].parses
    /\ \A i \in 1..Len(Records(m)) :
         /\ Records(m)[i].eventName # None
         /\ IsCreate(m, i) => DecodedKey[Records(m)[i].key] # None
         /\ CdnCreate(m, i) => CarriesUploader(RecordKey(m, i))
    /\ \E i \in 1..Len(Records(m)) : CdnCreate(m, i)

\* the POST of every cdn/ record of m has succeeded and m has left the queue
RegisteredAndDeleted(m) ==
    /\ m \notin queue
    /\ \A i \in 1..Len(Records(m)) :
         CdnCreate(m, i) =>
            /\ <<"post", i>> \in pm[m].done
            /\ \E r \in registrations : r.msg = m /\ r.rec = i

\* C8: every notification of cdn/ objects that carry uploaderidentitykey is
\* eventually registered and deleted from the queue
C8_EventuallyRegistered ==
    \A m \in Msgs : Registrable(m) ~> RegisteredAndDeleted(m)

\* a message that failed on its first delivery is registered on its second
C8_Witness ==
    \E m \in Msgs :
        /\ Registrable(m) /\ RegisteredAndDeleted(m)
        /\ receiveCount[m] = 2

--------------------------------------------------------------------------
\* Properties of the storage providers

\* the customtime a grant binds: the form field on S3, the header on GCS
GrantCustomTime(g) ==
    IF g.provider = "aws"
    THEN g.response.formFields[1]["x-amz-meta-customtime"]
    ELSE g.response.requiredHeaders["x-goog-custom-time"]

\* C11: for every expiryTime the customtime of a grant is the timestamp of
\* exactly expiryTime + 300 seconds, and both adapters compute the same
C11_CustomTimeIsExpiryPlus300 ==
    /\ \A e \in ExpiryTimes :
          /\ DateParse(S3CustomTime(e)) = (e + 300) * 1000
          /\ GCSCustomTime(e) = S3CustomTime(e)
    /\ grant # None =>
          DateParse(GrantCustomTime(grant[1]))
              = (grant[1].params.expiryTime + 300) * 1000

\* a GCS grant for an expiry of 3600 s carries the timestamp of 3900 s
C11_Witness ==
    /\ grant # None
    /\ grant[1].provider = "gcs"
    /\ grant[1].params.expiryTime = 3600
    /\ GrantCustomTime(grant[1]) = [sec |-> 3900, ms |-> 0]

\* customMetadata holds value under key, keys compared without case
HasField(customMetadata, key, value) ==
    \E k \in DOMAIN customMetadata :
        ToLowerCase(k) = key /\ customMetadata[k] = value

\* C12 as claimed: getObjectMetadata of the key, called after the backend
\* accepted an upload under the grant, returns customMetadata with the
\* owner key and the customtime of the grant
C12_RoundTrip ==
    [][ ( /\ call.op = "upload" /\ call.status = "accepted"
          /\ call'.op = "getObjectMetadata" /\ call'.status = "returned"
          /\ call'.key = call.key )
        => /\ HasField(call'.value.customMetadata, "uploaderidentitykey",
                       grant[1].params.uploaderIdentityKey)
           /\ HasField(call'.value.customMetadata, "customtime",
                       GrantCustomTime(grant[1])) ]_vars

ValidUntil(g) ==
    IF g.provider = "aws"
    THEN g.response.formFields[1]["Policy"].expiration
    ELSE g.response.uploadURL.expires

OneWeek == 7 * 24 * 60 * 60

\* C14 as claimed: every grant is valid for one week from its issue
C14_ValidOneWeek ==
    grant # None => ValidUntil(grant[1]) - grant[1].issuedAt = OneWeek * 1000

\* C15 as claimed: in every grant either requiredHeaders is populated and
\* formFields absent, or formFields present and requiredHeaders empty
C15_OneShapePopulated ==
    grant # None =>
        LET r == grant[1].response IN
        \/ DOMAIN r.requiredHeaders # {} /\ r.formFields = None
        \/ r.formFields # None /\ DOMAIN r.requiredHeaders = {}

\* the metadata keys a patch names
Named(patch) == {ToLowerCase(patch[i].k) : i \in 1..Len(patch)}

\* C16: after updateObjectMetadata has succeeded on S3 the object has the
\* content type and the size it had, and every metadata key it had that the
\* patch does not name has its value
C16_UpdateKeepsTheRest ==
    (/\ call.op = "updateObjectMetadata" /\ call.status = "returned"
     /\ call.backend = "aws") =>
        LET before == call.before
            after == bucket["aws"][call.key]
        IN  /\ after # None
            /\ after[1].contentType = before.contentType
            /\ after[1].size = before.size
            /\ \A k \in DOMAIN before.metadata \ Named(call.patch) :
                  /\ k \in DOMAIN after[1].metadata
                  /\ after[1].metadata[k] = before.metadata[k]

\* a patch of customTime has left the note and the type of the seeded
\* object as they were
C16_Witness ==
    /\ call.op = "updateObjectMetadata" /\ call.status = "returned"
    /\ call.backend = "aws"
    /\ Named(call.patch) = {"customtime"}
    /\ call.before.contentType = Some("text/plain")
    /\ bucket["aws"][call.key][1].metadata["note"] = "n"
    /\ bucket["aws"][call.key][1].metadata["customtime"] = ToISOString(9900000)

\* C17: when HeadObject or CopyObject fails, updateObjectMetadata rejects
\* with that error and the object is what it was before the call
C17_FailedUpdateChangesNothing ==
    (call.op = "updateObjectMetadata" /\ "step" \in DOMAIN call) =>
        /\ call.status = "threw"
        /\ call.error.kind \in {"notfound", "other"}
        /\ bucket[call.backend][call.key] = call.before

\* the copy has failed for an object that is there
C17_Witness ==
    /\ call.op = "updateObjectMetadata" /\ "step" \in DOMAIN call
    /\ call.step = "copy"
    /\ call.status = "threw"
    /\ call.before # None

\* C18: objectExists returns true when the backend answers with the object,
\* false when it answers not found, and rejects with every other error
C18_ExistsMapsNotFoundOnly ==
    call.op = "objectExists" =>
        /\ call.answer.kind = "found"
              => call.outcome = Returned("objectExists", TRUE)
        /\ call.answer.kind = "notfound"
              => call.outcome = Returned("objectExists", FALSE)
        /\ call.answer.kind = "other"
              => call.outcome = Rejected("objectExists", call.answer)

\* S3 has refused the HeadObject: objectExists rejects
C18_Witness ==
    /\ call.op = "objectExists"
    /\ call.backend = "aws"
    /\ call.answer.kind = "other"
    /\ call.answer.httpStatusCode = Some(403)
    /\ call.status = "threw"

\* C19 as claimed: the expiryTime getMetadata returns is the selected expiry
\* in whole minutes
C19_ExpiryInMinutes ==
    result.status = "returned" =>
        /\ result.expiryTime * 60 <= maxpiry
        /\ maxpiry < (result.expiryTime + 1) * 60

\* C20: between two resets at most one provider is constructed and every
\* getStorageProvider call returns it; a call that throws leaves nothing
\* cached, and the next call constructs if the environment allows it
C20_ConstructOnceReuse ==
    /\ [](/\ built <= 1
          /\ Cardinality(handedOut) <= 1
          /\ storageProvider # None => handedOut = {storageProvider[1]}
          /\ (call.op = "getStorageProvider" /\ call.status = "threw")
                => storageProvider = None /\ handedOut = {})
    /\ [][ ( /\ call.op = "getStorageProvider" /\ call.status = "threw"
             /\ call'.op = "getStorageProvider" /\ call' # call )
           => IF Construct(env, instances + 1).ok
              THEN /\ call'.status = "returned"
                   /\ built' = 1
                   /\ storageProvider' = Some(call'.value)
              ELSE /\ call'.status = "threw"
                   /\ call'.error = Construct(env, instances + 1).error ]_vars

\* after a reset a second provider was constructed, once
C20_Witness ==
    /\ call.op = "getStorageProvider" /\ call.status = "returned"
    /\ instances = 2
    /\ built = 1
    /\ storageProvider = Some(call.value)

--------------------------------------------------------------------------
\* Selection among candidates of equal or unparsable expiry

\* the eligible candidates whose identifier decodes to a non-empty text
Named21 == {i \in Eligible : IdAt(i) # <<>>}

\* C21 as claimed: when the candidates with both tags all have the parsed
\* expiry 0 (a malformed or zero expiry tag) and a non-empty identifier,
\* getMetadata does not throw 'No advertisement found'; after the epoch it
\* throws 'has expired'
C21_ZeroExpiryTakesPart ==
    (/\ PastChecks
     /\ Named21 # {} /\ Named21 = Eligible
     /\ \A i \in Eligible : ExpiryAt(i) = 0) =>
        /\ result.error # "NoAdvertisementFound"
        /\ nowMs > 0 => result = Threw("AdvertisementExpired")

\* the first candidate, in the order of listOutputs, among those of the
\* greatest parsed expiry
FirstOfMax ==
    CHOOSE i \in Eligible :
        /\ \A j \in Eligible : ExpiryAt(i) >= ExpiryAt(j)
        /\ \A j \in Eligible : ExpiryAt(j) = ExpiryAt(i) => i <= j

\* C22 as claimed: when the scan is over and some candidate has both tags,
\* the identifier selected is that of the first candidate among those that
\* share the greatest parsed expiry
C22_FirstOfMaxWins ==
    (ScanOver /\ Eligible # {}) => objectIdentifier = Some(IdAt(FirstOfMax))


--------------------------------------------------------------------------
\* The patch of updateObjectMetadata, on S3 and on GCS

\* what the value stored under a metadata key is: customtime holds a
\* timestamp and every other key a text
StoredType(k) == IF k = "customtime" THEN "iso" ELSE "string"

\* the patch value v stands under the key k of the metadata
HoldsValue(metadata, k, v) ==
    /\ k \in DOMAIN metadata
    /\ StoredType(k) = v.type
    /\ metadata[k] = v.value

\* the entries of a patch that no later entry overrides after lower-casing
Winning(patch) ==
    {i \in 1..Len(patch) :
        \A j \in (i + 1)..Len(patch) :
            ToLowerCase(patch[j].k) # ToLowerCase(patch[i].k)}

\* metadata `after` is `before` overlaid with the patch, keys lower-cased
\* and the patch winning
IsOverlay(after, before, patch) ==
    /\ DOMAIN after = DOMAIN before \cup Named(patch)
    /\ \A i \in Winning(patch) :
          HoldsValue(after, ToLowerCase(patch[i].k), patch[i].v)
    /\ \A k \in DOMAIN before \ Named(patch) : after[k] = before[k]

\* C23 as claimed: after updateObjectMetadata has succeeded on S3 the
\* metadata of the object is what it was overlaid with the patch, every
\* patch key lower-cased and every patch value standing under its key
C23_WrittenIsOverlay ==
    (/\ call.op = "updateObjectMetadata" /\ call.status = "returned"
     /\ call.backend = "aws") =>
        IsOverlay(bucket["aws"][call.key][1].metadata,
                  call.before.metadata, call.patch)

\* the custom metadata getObjectMetadata answers with for an object of GCS
GCSCustomMetadata(obj) == GCSObjectMetadata(GCSResource(obj)).customMetadata

\* C24 as claimed: after updateObjectMetadata has succeeded on GCS, the
\* customMetadata getObjectMetadata returns is what the update of S3 makes
\* of the same metadata and the same patch; customtime, which GCS keeps
\* outside the custom metadata, is left out of the comparison
C24_SameOnBothBackends ==
    (/\ call.op = "updateObjectMetadata" /\ call.status = "returned"
     /\ call.backend = "gcs") =>
        LET expected == NewMetadata(GCSCustomMetadata(call.before), call.patch)
            got == GCSCustomMetadata(bucket["gcs"][call.key][1])
        IN  \A k \in DOMAIN expected \ {"customtime"} :
               k \in DOMAIN got /\ got[k] = expected[k]


--------------------------------------------------------------------------
\* The identifier a registration carries

\* the key of the record a registration was sent for: the key the object
\* was uploaded to
UploadedKey(r) == DecodedKey[body[r.msg].Records[1][r.rec].key][1]

\* C25 as claimed: the key cdn/{objectIdentifier} the resolver builds from
\* the identifier of a registration is the key of the object the
\* registration was sent for
C25_IdentifierRoundTrip ==
    \A r \in registrations :
        ObjectKey(Some(r.data.objectIdentifier)) = UploadedKey(r)


--------------------------------------------------------------------------
\* The expiry of a registration

\* thirty days in seconds
DefaultLifetime == 2592000

\* the whole number of seconds e is the instant of ms milliseconds, rounded
IsSecondsOf(e, ms) ==
    /\ 0 <= e /\ e <= ms \div 1000 + 1
    /\ e * 1000 - ms <= 500 /\ ms - e * 1000 <= 500

\* HeadObject has resolved for message m in this step
HeadResolved(m) ==
    /\ pm[m].pc = "head"
    /\ <<"head", pm[m].rec>> \in pm'[m].done

\* C26: the expiryTime of every registration is the customtime of the
\* object in whole seconds when the object has one, and otherwise lies
\* 2592000 seconds after an instant the clock has shown; and the step in
\* which HeadObject resolves for an object that has its uploader but no
\* customtime does not fail: it sets the expiry to the clock of that step
\* plus 2592000 seconds and goes on to GetObject
C26_ExpiryFromCustomtimeOrDefault ==
    /\ [](\A r \in registrations :
            LET md == Objects[UploadedKey(r)].Metadata IN
            IF md.customtime # None
            THEN IsSecondsOf(r.data.expiryTime, DateParse(md.customtime[1]))
            ELSE /\ r.data.expiryTime - DefaultLifetime >= 0
                 /\ (r.data.expiryTime - DefaultLifetime) * 1000 <= nowMs + 500)
    /\ [][\A m \in Msgs :
            (/\ HeadResolved(m)
             /\ HasUploader(Objects[KeyOf(m)])
             /\ Objects[KeyOf(m)].Metadata.customtime = None) =>
                /\ pm'[m].pc = "get"
                /\ processingErrors' = processingErrors
                /\ IsSecondsOf(pm'[m].expiryTime - DefaultLifetime, nowMs)]_vars
    /\ [][\A r \in registrations' \ registrations :
            r.data.expiryTime = pm[r.msg].expiryTime]_vars

\* cdn/b, which has no customtime, has been registered half a second after
\* the start with the expiry of 2592001 seconds
C26_Witness ==
    \E r \in registrations :
        /\ UploadedKey(r) = KeyB
        /\ nowMs = 500
        /\ r.data.expiryTime = DefaultLifetime + 1


--------------------------------------------------------------------------
\* The records of one message

\* the records of message m, none when its body has no Records
RecordsOf(m) == IF body[m].Records = None THEN <<>> ELSE body[m].Records[1]

\* record i of message m is a create event of a key under cdn/
IsCdnCreate(m, i) == LoopFrom[body[m]][i] = [pc |-> "head", rec |-> i]

\* the loop of message m is at a record, in flight or failed there
AtRecord(m) == pm[m].rec >= 1

\* record i of message m has been registered in the current delivery
RegisteredNow(m, i) ==
    /\ <<"post", i>> \in pm[m].done
    /\ \E r \in registrations :
          r.msg = m /\ r.rec = i /\ r.delivery = receiveCount[m]

\* C27: while the loop of a message is at record k, in flight or failed
\* there, no call has been sent for a later record and none to delete the
\* message, which is in the queue; the only call not yet answered is the one
\* awaited; every create record of cdn/ before k has been registered in this
\* very delivery, so again in each redelivery. Within a delivery the loop
\* never goes back, and after a failure the message does nothing until it
\* is received again. A delete is sent only in a delivery in which every
\* create record of cdn/ has been registered.
C27_InOrderStopAtFailure ==
    /\ [](\A m \in Msgs :
            /\ AtRecord(m) =>
                  /\ m \in queue
                  /\ <<"delete", 0>> \notin pm[m].calls
                  /\ \A c \in pm[m].calls : c[2] <= pm[m].rec
                  /\ pm[m].calls \ pm[m].done \subseteq
                        {c \in pm[m].calls : c[2] = pm[m].rec}
                  /\ pm[m].pc \in InFlightPcs =>
                        pm[m].calls \ pm[m].done = {<<pm[m].pc, pm[m].rec>>}
                  /\ \A i \in 1..(pm[m].rec - 1) :
                        IsCdnCreate(m, i) => RegisteredNow(m, i)
            /\ <<"delete", 0>> \in pm[m].calls =>
                  \A i \in 1..Len(RecordsOf(m)) :
                      IsCdnCreate(m, i) => RegisteredNow(m, i))
    /\ [][\A m \in Msgs :
            /\ pm[m].pc = "failed" =>
                  \/ pm'[m] = pm[m]
                  \/ receiveCount'[m] = receiveCount[m] + 1
            /\ (AtRecord(m) /\ receiveCount'[m] = receiveCount[m]
                /\ pm'[m].rec >= 1) => pm'[m].rec >= pm[m].rec]_vars

\* the second delivery of the message of cdn/a and cdn/c has failed at
\* cdn/c like the first, and cdn/a has been registered in both
C27_Witness ==
    \E m \in Msgs :
        /\ body[m] = BodyList[8]
        /\ receiveCount[m] = 2
        /\ pm[m].pc = "failed" /\ pm[m].rec = 2
        /\ m \in queue
        /\ \A d \in 1..2 : \E r \in registrations :
              r.msg = m /\ r.rec = 1 /\ r.delivery = d


--------------------------------------------------------------------------
\* The polling loop

\* the messages whose processMessage call has not settled
Unsettled == {m \in Msgs : ~Settled(pm[m])}

\* C29: every message being processed belongs to the one batch in flight,
\* which holds at most SQS_MAX_MESSAGES messages; while pollSQS awaits a
\* receive no message is being processed, and a receive is answered with
\* messages only when the processing of every message has settled
C29_OneBatchInFlight ==
    /\ [](/\ Unsettled \subseteq batch
          /\ Cardinality(batch) <= SQS_MAX_MESSAGES
          /\ Cardinality(Unsettled) <= SQS_MAX_MESSAGES
          /\ ppc = "receive" => Unsettled = {})
    /\ [][receiveCount' # receiveCount =>
            /\ ppc = "receive"
            /\ Unsettled = {}
            /\ Unsettled' \subseteq {m \in Msgs : receiveCount'[m] # receiveCount[m]}
         ]_vars

\* pollSQS awaits its second receive after a batch of two messages, one
\* deleted and one failed
C29_Witness ==
    /\ ppc = "receive"
    /\ \A m \in Msgs : receiveCount[m] = 1
    /\ \E m \in Msgs : pm[m].pc = "deleted"
    /\ \E m \in Msgs : pm[m].pc = "failed" /\ <<"head", 1>> \in pm[m].calls
    /\ recvFails = 0

\* C30: with no shutdown signal the process never exits; the step in which
\* a receive fails counts one error and leads to the wait, and the wait is
\* always followed by another receive
C30_ReceiveFailureRetried ==
    /\ [](ppc # "exited")
    /\ [][recvFails' # recvFails =>
            /\ ppc = "receive" /\ ppc' = "wait"
            /\ processingErrors' = processingErrors + 1
            /\ pm' = pm /\ queue' = queue]_vars
    /\ (ppc = "wait" ~> ppc = "receive")

\* the first receive has failed, the wait is over and pollSQS awaits its
\* next receive, one error counted
C30_Witness ==
    /\ recvFails = 1
    /\ processingErrors = 1
    /\ ppc = "receive"
    /\ \A m \in Msgs : receiveCount[m] = 0


--------------------------------------------------------------------------
\* Concurrent updates of one object

\* what a call with the patch writes by itself
OwnMetadata(patch) == NewMetadata(<< >>, patch)

\* the metadata hold everything the patch writes
HoldsPatch(metadata, patch) ==
    \A k \in DOMAIN OwnMetadata(patch) :
        k \in DOMAIN metadata /\ metadata[k] = OwnMetadata(patch)[k]

\* C28 as claimed: when an updateObjectMetadata call on S3 returns right
\* after the call of another caller has returned for the same key, with a
\* patch that names none of the keys of the other, and no call is left in
\* flight, the metadata of the object hold both patches
C28_NoLostUpdate ==
    [][(/\ call.op = "updateObjectMetadata" /\ call.status = "returned"
        /\ call'.op = "updateObjectMetadata" /\ call'.status = "returned"
        /\ call'.caller # call.caller
        /\ call'.key = call.key
        /\ Named(call'.patch) \cap Named(call.patch) = {}
        /\ Quiet') =>
           /\ HoldsPatch(bucket'["aws"][call.key][1].metadata, call.patch)
           /\ HoldsPatch(bucket'["aws"][call.key][1].metadata, call'.patch)
      ]_vars

====
